---- MODULE Spec2Model ----
(***************************************************************************)
(* Mindful Mornings: the request handlers of src/server.py over the        *)
(* relational store declared in src/model.py.                              *)
(*                                                                         *)
(* The store is the PostgreSQL database the application connects to        *)
(* (src/model.py:182): primary keys, UNIQUE, NOT NULL and FOREIGN KEY      *)
(* constraints are enforced by the store, and a violated constraint makes  *)
(* the commit raise IntegrityError and leaves the store unchanged.  One    *)
(* step of the model is one HTTP request handled to completion (the        *)
(* handlers run one at a time per request; the model has one browser       *)
(* session).  An uncaught exception is the response "error" carrying the   *)
(* exception's class.                                                      *)
(*                                                                         *)
(* The tables categories and tasks_categories (src/model.py:136-172) are   *)
(* read and written by no handler; they are taken to be empty.             *)
(***************************************************************************)
EXTENDS Integers, Sequences, FiniteSets, TLC

VARIABLES
    users,           \* rows of table users
    user_id_seq,     \* next value of the sequence behind users.user_id
    settings,        \* rows of table settings
    users_settings,  \* rows of table users_settings
    tasks,           \* rows of table tasks
    gameplan_tasks,  \* rows of table gameplan_tasks
    session,         \* the Flask session: a dictionary with at most the key "user"
    request,         \* the request handled last
    response         \* what the handler answered

vars == <<users, user_id_seq, settings, users_settings, tasks, gameplan_tasks,
          session, request, response>>

store == <<users, user_id_seq, settings, users_settings, tasks, gameplan_tasks>>

---------------------------------------------------------------------------
(* Bounds of the model *)

\* the sequence behind users.user_id is followed up to this value
MaxUserId == 2
\* the store starts with at most this many tasks
MaxTasks == 2
\* the "order" field of the gameplan form ranges over 1..MaxOrder
MaxOrder == 2

---------------------------------------------------------------------------
(* Values *)

\* Python's None (SQL NULL) where an integer is expected
None == 0
\* Python's None (SQL NULL) where text is expected: a form field that is absent
NoneText == "None"

Usernames == {"alice", "bob"}
Passwords == {"pw1", "pw2"}
\* values a settings form can carry
SettingValues == {"on"}
\* the value the store's users_settings rows start with
SeedValue == "off"
\* the catalogue of settings the store may start with
SettingNames == <<"priority">>
\* (start_time, end_time) pairs of the gameplan form
TimeSlots == {<<NoneText, NoneText>>, <<"2018-06-01 07:00:00", "2018-06-01 07:10:00">>}
\* a (start_time, end_time) pair of times of day, without a date
TimeOfDaySlot == <<"07:00", "07:10">>
\* the form texts the store reads as a timestamp
Timestamps == {"2018-06-01 07:00:00", "2018-06-01 07:10:00"}
TaskNames == {"Shower"}
Durations == {"10"}

\* the users the store may start with, by user_id
SeedUsernames == <<"alice", "bob">>
SeedPasswords == <<"pw1", "pw2">>

---------------------------------------------------------------------------
(* Responses *)

NoFlash == ""
NoContext == <<>>

Redirect(target, message) ==
    [status |-> "redirect", target |-> target, flash |-> message, context |-> NoContext]

Render(template, context) ==
    [status |-> "render", target |-> template, flash |-> NoFlash, context |-> context]

\* an exception no handler catches: the framework answers with a server error
Error(exception) ==
    [status |-> "error", target |-> exception, flash |-> NoFlash, context |-> NoContext]

---------------------------------------------------------------------------
(* The session dictionary *)

EmptySession == [k \in {} |-> None]

\* session['user'] raises KeyError
NoSessionKey == "user" \notin DOMAIN session

\* session['user'] = value
SessionWith(value) == [k \in {"user"} |-> value]

\* no current user id in the session
Anonymous(s) == "user" \notin DOMAIN s \/ s["user"] = None

Authenticated(s) == ~Anonymous(s)

---------------------------------------------------------------------------
(* Queries *)

\* User.query.filter_by(username=username)
UsersByUsername(username) == {u \in users : u.username = username}

\* User.query.get(user_id)
UsersById(user_id) == {u \in users : u.user_id = user_id}

\* Task.query.get(task_id)
TasksById(task_id) == {t \in tasks : t.task_id = task_id}

\* Task.query.filter_by(user_id=user_id).all()
TasksOfUser(user_id) == {t \in tasks : t.user_id = user_id}

\* GameplanTask.query.get(task_id)
GameplanTasksById(task_id) == {g \in gameplan_tasks : g.task_id = task_id}

\* UserSetting.query.filter_by(user_setting_id=user_setting_id)
UserSettingsById(user_setting_id) ==
    {s \in users_settings : s.user_setting_id = user_setting_id}

\* the row of `rows` that is least in `column`
LeastBy(rows, column) ==
    CHOOSE r \in rows : \A q \in rows : r[column] <= q[column]

\* the row of `rows` that is greatest in `column`
GreatestBy(rows, column) ==
    CHOOSE r \in rows : \A q \in rows : r[column] >= q[column]

\* fault: the listing ordered descending
RECURSIVE OrderByDescending(_, _)
OrderByDescending(rows, column) ==
    IF rows = {} THEN <<>>
    ELSE LET first == GreatestBy(rows, column)
         IN  <<first>> \o OrderByDescending(rows \ {first}, column)

\* query.order_by(column).all(): the rows as a list, ascending in `column`
RECURSIVE OrderBy(_, _)
OrderBy(rows, column) ==
    IF rows = {} THEN <<>>
    ELSE LET first == LeastBy(rows, column)
         IN  <<first>> \o OrderBy(rows \ {first}, column)

\* GameplanTask.query.filter_by(user_id=user_id).order_by(GameplanTask.order).all()
GameplanOfUser(user_id) ==
    OrderBy({g \in gameplan_tasks : g.user_id = user_id}, "order")

\* UserSetting.query.filter_by(user_id=user_id).order_by(UserSetting.user_setting_id).all()
SettingsOfUser(user_id) ==
    OrderBy({s \in users_settings : s.user_id = user_id}, "user_setting_id")

\* UserSetting.query.filter_by(user_id=user_id, setting_id=setting_id).first(),
\* then its value, or None
SettingValue(user_id, setting_id) ==
    LET found == {s \in users_settings :
                     s.user_id = user_id /\ s.setting_id = setting_id}
    IN  IF found = {} THEN NoneText
        ELSE LeastBy(found, "user_setting_id").value

---------------------------------------------------------------------------
(* The store a run starts from.  No handler inserts a settings row, and     *)
(* none inserts a tasks or users_settings row that is committed, so the    *)
(* rows of these tables are those the store holds when the run starts:     *)
(* either a store with no user yet and k settings, or one with n users,    *)
(* m tasks, k settings and one users_settings row per user and setting,    *)
(* numbered as the sequences number them.  Stores with fewer tasks are     *)
(* reached from the latter by deleting tasks.  Registrations are followed  *)
(* from the store with no user; the sequence of the populated store stands *)
(* past the last user_id the model follows (a sequence also advances on    *)
(* every refused INSERT, so it may stand anywhere past the ids in use).    *)

SeedUsers(n) ==
    {[user_id |-> i, username |-> SeedUsernames[i], password |-> SeedPasswords[i]] :
        i \in 1..n}

SeedTasks(n, m) ==
    {[task_id |-> i, user_id |-> ((i - 1) % n) + 1,
      task_name |-> "Shower", duration_estimate |-> 10] : i \in 1..m}

SeedSettings(k) ==
    {[setting_id |-> j, setting_name |-> SettingNames[j]] : j \in 1..k}

SeedUsersSettings(n, k) ==
    {[user_setting_id |-> (i - 1) * k + j, user_id |-> i, setting_id |-> j,
      value |-> SeedValue] : i \in 1..n, j \in 1..k}

Init ==
    \E n \in {0, Len(SeedUsernames)}, m \in {0, MaxTasks}, k \in 0..Len(SettingNames) :
        /\ n = 0 <=> m = 0
        /\ n # 0 => k = Len(SettingNames)
        /\ users = SeedUsers(n)
        /\ user_id_seq = IF n = 0 THEN 1 ELSE MaxUserId + 1
        /\ tasks = IF n = 0 THEN {} ELSE SeedTasks(n, m)
        /\ settings = SeedSettings(k)
        /\ users_settings = SeedUsersSettings(n, k)
        /\ gameplan_tasks = {}
        /\ session = EmptySession
        /\ request = [handler |-> "", form |-> <<>>]
        /\ response = [status |-> "", target |-> "", flash |-> NoFlash,
                       context |-> NoContext]

---------------------------------------------------------------------------
(* Constraints of the store, as the commit checks them *)

\* INSERT INTO users violates NOT NULL or UNIQUE(username)
UserInsertViolates(username, password) ==
    \/ username = NoneText
    \/ password = NoneText
    \/ UsersByUsername(username) # {}

\* fault: a store that does not enforce the foreign key
ForeignKeyUnchecked(task_id) == TRUE

\* the foreign key gameplan_tasks.task_id -> tasks.task_id holds for task_id
TaskForeignKeyHolds(task_id) == TasksById(task_id) # {}

\* INSERT INTO gameplan_tasks violates NOT NULL, the primary key, a foreign key
\* or one of the UNIQUE columns order, start_time, end_time (NULLs never collide)
GameplanInsertViolates(row) ==
    \/ row.user_id = None
    \/ UsersById(row.user_id) = {}
    \/ GameplanTasksById(row.task_id) # {}
    \/ ~TaskForeignKeyHolds(row.task_id)
    \/ \E g \in gameplan_tasks :
          \/ g.order = row.order
          \/ (row.start_time # NoneText /\ g.start_time = row.start_time)
          \/ (row.end_time # NoneText /\ g.end_time = row.end_time)

\* the store takes `text` as the value of a DateTime column: NULL, or a text it
\* reads as a timestamp (a date and a time; a time of day alone is refused)
TimestampAccepted(text) == text = NoneText \/ text \in Timestamps

\* On flushing the delete of a Task, the relationship Task.gameplan_task (no
\* cascade) sets the foreign key of the task's GameplanTask to NULL; that column
\* is the GameplanTask's primary key, and the unit of work raises AssertionError.
BlanksPrimaryKey(task_id) == GameplanTasksById(task_id) # {}

---------------------------------------------------------------------------
(* Handlers *)

IndexTemplate == "index.html"
DashboardTemplate == "dashboard.html"

MismatchMessage == "Your passwords do not match. Please try again."
RegisteredMessage == "Thank you for registering! Now please login with your credentials."
LoggedInMessage == "You are now logged in."
IncorrectLoginMessage == "Incorrect login information. Please try again."
NoUsernameMessage == "Your username does not exist. Please try again or register as a new user."
LoggedOutMessage == "You are now logged out."
ActiveInGameplanMessage == "That task is active in your gameplan! Remove that task from gameplan before deleting from templates."

\* the fixed setting ids the dashboard reads
PrioritySettingId == 1
IntentionSettingId == 9
NotesRemindersSettingId == 10

\* GET /
show_index ==
    /\ request' = [handler |-> "show_index", form |-> <<>>]
    /\ response' =
          IF NoSessionKey THEN Error("KeyError")
          ELSE IF session["user"] # None /\ UsersById(session["user"]) # {}
          THEN Render(IndexTemplate,
                      [username |-> (CHOOSE u \in UsersById(session["user"]) : TRUE).username])
          ELSE IF session["user"] # None THEN Error("UnboundLocalError")
          ELSE Render(IndexTemplate, [username |-> "friend"])
    /\ UNCHANGED <<store, session>>

\* GET /register
display_registration_form ==
    /\ request' = [handler |-> "display_registration_form", form |-> <<>>]
    /\ response' = Render("registration_form.html", NoContext)
    /\ UNCHANGED <<store, session>>

\* fault: the password compared with itself
PasswordsNeverDiffer(password, confirm_password) == password # password

\* password != confirm_password
PasswordsDiffer(password, confirm_password) == password # confirm_password

\* POST /register
execute_user_registration(username, password, confirm_password) ==
    /\ request' = [handler |-> "execute_user_registration",
                   form |-> [username |-> username, password |-> password,
                             confirm_password |-> confirm_password]]
    /\ UNCHANGED <<session, settings, tasks, gameplan_tasks, users_settings>>
    /\ IF PasswordsDiffer(password, confirm_password)
       THEN /\ response' = Redirect("/register", MismatchMessage)
            /\ UNCHANGED <<users, user_id_seq>>
       ELSE \* the INSERT draws the next user_id whether or not it succeeds
            /\ user_id_seq <= MaxUserId
            /\ user_id_seq' = user_id_seq + 1
            /\ IF UserInsertViolates(username, password)
               THEN /\ response' = Error("IntegrityError")
                    /\ UNCHANGED users
               ELSE /\ users' = users \cup {[user_id |-> user_id_seq,
                                             username |-> username,
                                             password |-> password]}
                    \* the user is committed; the loop over the settings then
                    \* reads setting.setting_default_value, which no Setting has
                    /\ response' = IF settings = {}
                                   THEN Redirect("/", RegisteredMessage)
                                   ELSE Error("AttributeError")

\* fault: any password is accepted for an existing username
PasswordIgnored(user, password) == TRUE

\* user.password == password
PasswordMatches(user, password) == user.password = password

\* fault: the user id is not stored in the session
SessionKept(user) == session

\* session['user'] = user.user_id
SessionAfterLogin(user) == SessionWith(user.user_id)

\* fault: a refused login clears the session
check_login_credentials_clearing(username, password) ==
    /\ request' = [handler |-> "check_login_credentials",
                   form |-> [username |-> username, password |-> password]]
    /\ UNCHANGED store
    /\ LET found == UsersByUsername(username)
       IN  IF found # {}
           THEN LET user == CHOOSE u \in found : TRUE
                IN  IF PasswordMatches(user, password)
                    THEN /\ session' = SessionAfterLogin(user)
                         /\ response' = Redirect("/", LoggedInMessage)
                    ELSE /\ session' = SessionWith(None)
                         /\ response' = Redirect("/", IncorrectLoginMessage)
           ELSE /\ session' = SessionWith(None)
                /\ response' = Redirect("/", NoUsernameMessage)

\* POST /login
check_login_credentials(username, password) ==
    /\ request' = [handler |-> "check_login_credentials",
                   form |-> [username |-> username, password |-> password]]
    /\ UNCHANGED store
    /\ LET found == UsersByUsername(username)
       IN  IF found # {}
           THEN LET user == CHOOSE u \in found : TRUE
                IN  IF PasswordMatches(user, password)
                    THEN /\ session' = SessionAfterLogin(user)
                         /\ response' = Redirect("/", LoggedInMessage)
                    ELSE /\ response' = Redirect("/", IncorrectLoginMessage)
                         /\ UNCHANGED session
           ELSE /\ response' = Redirect("/", NoUsernameMessage)
                /\ UNCHANGED session

\* GET /logout
log_out_user ==
    /\ request' = [handler |-> "log_out_user", form |-> <<>>]
    /\ session' = SessionWith(None)
    /\ response' = Redirect("/", LoggedOutMessage)
    /\ UNCHANGED store

\* GET /api/tasks
task_list ==
    /\ request' = [handler |-> "task_list", form |-> <<>>]
    /\ response' =
          IF NoSessionKey THEN Error("KeyError")
          ELSE Render(DashboardTemplate, [tasks |-> TasksOfUser(session["user"])])
    /\ UNCHANGED <<store, session>>

\* POST /api/task
add_new_task(task_name, duration_estimate) ==
    /\ request' = [handler |-> "add_new_task",
                   form |-> [task_name |-> task_name,
                             duration_estimate |-> duration_estimate]]
    \* Task.__init__(self, task_name, duration_estimate) takes no user_id
    /\ response' = IF NoSessionKey THEN Error("KeyError") ELSE Error("TypeError")
    /\ UNCHANGED <<store, session>>

\* fault: the relationship cascades the delete to the task's gameplan entry
delete_task_cascading(task_id) ==
    /\ request' = [handler |-> "delete_task_from_task_list",
                   form |-> [task_id |-> task_id]]
    /\ UNCHANGED <<users, user_id_seq, settings, users_settings, session>>
    /\ IF TasksById(task_id) = {}
       THEN /\ response' = Error("UnmappedInstanceError")
            /\ UNCHANGED <<tasks, gameplan_tasks>>
       ELSE /\ tasks' = tasks \ TasksById(task_id)
            /\ gameplan_tasks' = gameplan_tasks \ GameplanTasksById(task_id)
            /\ response' = Redirect("/dashboard", NoFlash)

\* GET|DELETE /api/task/<task_id>
delete_task_from_task_list(task_id) ==
    /\ request' = [handler |-> "delete_task_from_task_list",
                   form |-> [task_id |-> task_id]]
    /\ UNCHANGED <<users, user_id_seq, settings, users_settings, session,
                   gameplan_tasks>>
    /\ IF TasksById(task_id) = {}
       THEN \* db.session.delete(None)
            /\ response' = Error("UnmappedInstanceError")
            /\ UNCHANGED tasks
       ELSE IF BlanksPrimaryKey(task_id)
       THEN \* except AssertionError
            /\ response' = Redirect("/dashboard", ActiveInGameplanMessage)
            /\ UNCHANGED tasks
       ELSE /\ tasks' = tasks \ TasksById(task_id)
            /\ response' = Redirect("/dashboard", NoFlash)

\* GET /settings
show_user_settings ==
    /\ request' = [handler |-> "show_user_settings", form |-> <<>>]
    /\ response' =
          IF NoSessionKey THEN Error("KeyError")
          ELSE IF session["user"] = None THEN Redirect("/", NoFlash)
          ELSE IF UsersById(session["user"]) = {} THEN Error("AttributeError")
          ELSE Render("user_settings.html",
                      [username |-> (CHOOSE u \in UsersById(session["user"]) : TRUE).username,
                       user_settings |-> SettingsOfUser(session["user"])])
    /\ UNCHANGED <<store, session>>

\* GET|PUT /api/setting/<user_setting_id>
update_user_setting(user_setting_id, new_value) ==
    /\ request' = [handler |-> "update_user_setting",
                   form |-> [user_setting_id |-> user_setting_id,
                             new_value |-> new_value]]
    /\ UNCHANGED <<users, user_id_seq, settings, tasks, gameplan_tasks, session>>
    /\ IF UserSettingsById(user_setting_id) = {}
       THEN \* .one()
            /\ response' = Error("NoResultFound")
            /\ UNCHANGED users_settings
       ELSE IF new_value = NoneText
       THEN \* value is NOT NULL
            /\ response' = Error("IntegrityError")
            /\ UNCHANGED users_settings
       ELSE /\ users_settings' =
                  {IF s.user_setting_id = user_setting_id
                   THEN [s EXCEPT !.value = new_value] ELSE s : s \in users_settings}
            /\ response' = Redirect("/settings", NoFlash)

\* GET /dashboard
show_user_tasks_and_gameplan ==
    /\ request' = [handler |-> "show_user_tasks_and_gameplan", form |-> <<>>]
    /\ response' =
          IF NoSessionKey THEN Error("KeyError")
          ELSE IF UsersById(session["user"]) = {} THEN Error("AttributeError")
          ELSE LET user_id == session["user"]
               IN  Render(DashboardTemplate,
                      [username |-> (CHOOSE u \in UsersById(user_id) : TRUE).username,
                       gameplan_tasks |-> GameplanOfUser(user_id),
                       tasks |-> TasksOfUser(user_id),
                       priority |-> SettingValue(user_id, PrioritySettingId),
                       intention |-> SettingValue(user_id, IntentionSettingId),
                       notes_reminders |-> SettingValue(user_id, NotesRemindersSettingId)])
    /\ UNCHANGED <<store, session>>

\* POST /api/add_task_to_gameplan
add_task_to_gameplan(task_id, order, start_time, end_time) ==
    /\ request' = [handler |-> "add_task_to_gameplan",
                   form |-> [gameplan_task_name |-> task_id, order |-> order,
                             start_time |-> start_time, end_time |-> end_time]]
    /\ UNCHANGED <<users, user_id_seq, settings, users_settings, tasks, session>>
    /\ IF NoSessionKey
       THEN /\ response' = Error("KeyError")
            /\ UNCHANGED gameplan_tasks
       ELSE IF order = None
       THEN \* int(None)
            /\ response' = Error("TypeError")
            /\ UNCHANGED gameplan_tasks
       ELSE LET row == [task_id |-> task_id, user_id |-> session["user"],
                        order |-> order, start_time |-> start_time,
                        end_time |-> end_time]
            IN  IF ~(TimestampAccepted(start_time) /\ TimestampAccepted(end_time))
                THEN \* the INSERT is refused before any constraint is checked
                     /\ response' = Error("DataError")
                     /\ UNCHANGED gameplan_tasks
                ELSE IF GameplanInsertViolates(row)
                THEN /\ response' = Error("IntegrityError")
                     /\ UNCHANGED gameplan_tasks
                ELSE /\ gameplan_tasks' = gameplan_tasks \cup {row}
                     /\ response' = Redirect("/dashboard", NoFlash)

\* GET|DELETE /api/gptask/<task_id>
delete_task_from_gameplan(task_id) ==
    /\ request' = [handler |-> "delete_task_from_gameplan",
                   form |-> [task_id |-> task_id]]
    /\ UNCHANGED <<users, user_id_seq, settings, users_settings, tasks, session>>
    /\ IF GameplanTasksById(task_id) = {}
       THEN \* db.session.delete(None)
            /\ response' = Error("UnmappedInstanceError")
            /\ UNCHANGED gameplan_tasks
       ELSE /\ gameplan_tasks' = gameplan_tasks \ GameplanTasksById(task_id)
            /\ response' = Redirect("/dashboard", NoFlash)

\* GET /about
display_about_page ==
    /\ request' = [handler |-> "display_about_page", form |-> <<>>]
    /\ response' = Render("about.html", NoContext)
    /\ UNCHANGED <<store, session>>

---------------------------------------------------------------------------
(* Requests *)

FormUsernames == Usernames \cup {NoneText}

\* registration forms: username, password, confirm_password (each may be absent)
RegistrationForms ==
    (FormUsernames \X Passwords \X Passwords)
        \cup (Usernames \X {NoneText} \X {NoneText})

\* login forms: username, password
LoginForms == FormUsernames \X Passwords

\* task ids a URL or form can name (a deleted task's id names no task)
TaskIds == 1..MaxTasks

\* gameplan forms: gameplan_task_name, order, (start_time, end_time)
GameplanForms ==
    (TaskIds \X (1..MaxOrder) \X TimeSlots)
        \cup (TaskIds \X {None} \X {<<NoneText, NoneText>>})
        \cup ({1} \X {1} \X {TimeOfDaySlot})

\* user_setting ids a URL can name: those of the store and one that names no row
UserSettingIds == 1..(Len(SeedUsernames) * Len(SettingNames) + 1)

\* setting updates: user_setting_id and the value sent (absent for one of them)
SettingForms ==
    (UserSettingIds \X SettingValues) \cup ({1} \X {NoneText})

Next ==
    \/ show_index
    \/ display_registration_form
    \/ \E form \in RegistrationForms :
          execute_user_registration(form[1], form[2], form[3])
    \/ \E form \in LoginForms : check_login_credentials(form[1], form[2])
    \/ log_out_user
    \/ task_list
    \/ \E task_name \in TaskNames, duration_estimate \in Durations :
          add_new_task(task_name, duration_estimate)
    \/ \E task_id \in TaskIds : delete_task_from_task_list(task_id)
    \/ show_user_settings
    \/ \E form \in SettingForms : update_user_setting(form[1], form[2])
    \/ show_user_tasks_and_gameplan
    \/ \E form \in GameplanForms :
          add_task_to_gameplan(form[1], form[2], form[3][1], form[3][2])
    \/ \E task_id \in TaskIds : delete_task_from_gameplan(task_id)
    \/ display_about_page

Spec == Init /\ [][Next]_vars

---------------------------------------------------------------------------
(* Properties *)

RegisterHandler == "execute_user_registration"
LoginHandler == "check_login_credentials"
LogoutHandler == "log_out_user"
DeleteTaskHandler == "delete_task_from_task_list"

\* the handlers that read or write user-owned data
UserDataHandlers ==
    {"task_list", "add_new_task", "delete_task_from_task_list", "show_user_settings",
     "update_user_setting", "show_user_tasks_and_gameplan", "add_task_to_gameplan",
     "delete_task_from_gameplan"}

\* the users whose username and password are those of the form
Credentialed(form) ==
    {u \in users : u.username = form.username /\ u.password = form.password}

\* C1: a Register request with matching passwords and a username not yet taken
\* completes and adds exactly one User row and exactly one UserSetting row per
\* Setting row of that moment, each with the new user's id and that Setting's id
\* (no Setting carries a default value the new row's value could be compared to).
C1_RegistrationSeedsSettings ==
    [][(/\ request'.handler = RegisterHandler
        /\ request'.form.password = request'.form.confirm_password
        /\ request'.form.username \in Usernames
        /\ UsersByUsername(request'.form.username) = {})
       => /\ response'.status = "redirect"
          /\ \E u \in users' :
                /\ u \notin users
                /\ users' = users \cup {u}
                /\ u.username = request'.form.username
                /\ LET new == users_settings' \ users_settings
                   IN  /\ users_settings \subseteq users_settings'
                       /\ Cardinality(new) = Cardinality(settings)
                       /\ \A s \in settings :
                             \E r \in new : /\ r.user_id = u.user_id
                                            /\ r.setting_id = s.setting_id]_vars

\* C2: deleting a Task while a GameplanTask with its task_id exists leaves both
\* rows in the store and answers with the "active in your gameplan" message;
\* deleting a Task that has no GameplanTask removes that Task row and no other row.
C2_DeleteTaskConflictOrRemoval ==
    [][request'.handler = DeleteTaskHandler
       => LET task_id == request'.form.task_id
          IN  /\ GameplanTasksById(task_id) # {}
                 => /\ TasksById(task_id) # {}
                    /\ tasks' = tasks
                    /\ gameplan_tasks' = gameplan_tasks
                    /\ response' = Redirect("/dashboard", ActiveInGameplanMessage)
              /\ (TasksById(task_id) # {} /\ GameplanTasksById(task_id) = {})
                 => /\ tasks' = tasks \ TasksById(task_id)
                    /\ Cardinality(tasks') = Cardinality(tasks) - 1
                    /\ response'.status = "redirect"
                    /\ UNCHANGED <<users, settings, users_settings, gameplan_tasks>>]_vars

\* C2 witness: the delete of a task that is in the gameplan was answered with the
\* conflict message, and the task and its gameplan entry are still there.
C2_Witness ==
    /\ request.handler = DeleteTaskHandler
    /\ response.flash = ActiveInGameplanMessage
    /\ TasksById(request.form.task_id) # {}
    /\ GameplanTasksById(request.form.task_id) # {}

\* C3: while the session is Anonymous, no handler of user-owned data creates,
\* updates or deletes a Task, GameplanTask or UserSetting row.
C3_AnonymousChangesNothing ==
    [][(Anonymous(session) /\ request'.handler \in UserDataHandlers)
       => UNCHANGED <<tasks, gameplan_tasks, users_settings>>]_vars

\* C4: every Add Task request of an Authenticated session creates exactly one
\* Task row, owned by the session user, which the user's task listing then holds.
C4_AddTaskCreatesOneTask ==
    [][(request'.handler = "add_new_task" /\ Authenticated(session))
       => \E t \in tasks' :
             /\ t \notin tasks
             /\ tasks' = tasks \cup {t}
             /\ t.user_id = session["user"]
             /\ t.task_name = request'.form.task_name]_vars

\* C5 as claimed: a Login request with a wrong password or an unknown username
\* leaves the session Anonymous.
C5_FailedLoginLeavesAnonymous ==
    [][(request'.handler = LoginHandler /\ Credentialed(request'.form) = {})
       => Anonymous(session')]_vars

\* C5 as amended: a Login request with a wrong password or an unknown username
\* leaves the session as it was, so an Anonymous session stays Anonymous.
C5_FailedLoginKeepsSession ==
    [][(request'.handler = LoginHandler /\ Credentialed(request'.form) = {})
       => /\ session' = session
          /\ Anonymous(session) => Anonymous(session')]_vars

\* C5 witness: a login with a wrong password for an existing username was refused
\* and the session is Anonymous.
C5_Witness ==
    /\ request.handler = LoginHandler
    /\ UsersByUsername(request.form.username) # {}
    /\ Credentialed(request.form) = {}
    /\ response.flash = IncorrectLoginMessage
    /\ Anonymous(session)

\* C6: a Login request with the username and password of a registered User makes
\* the session Authenticated with that User's user_id, whatever it was before.
C6_LoginAuthenticates ==
    [][request'.handler = LoginHandler
       => \A u \in Credentialed(request'.form) :
             /\ Authenticated(session')
             /\ session'["user"] = u.user_id]_vars

\* C6 witness: a login with a registered user's credentials has been answered and
\* the session holds that user's id.
C6_Witness ==
    /\ request.handler = LoginHandler
    /\ response.flash = LoggedInMessage
    /\ \E u \in Credentialed(request.form) : session["user"] = u.user_id

\* C7: the session changes only in a successful Login, to the id of the user whose
\* credentials were given, and in Logout, to no user id; Logout yields Anonymous
\* from either state; the session never holds anything but a registered user's id.
C7_SessionStateMachine ==
    [][/\ session' # session
          => \/ /\ request'.handler = LoginHandler
                /\ \E u \in Credentialed(request'.form) :
                      session' = SessionWith(u.user_id)
             \/ /\ request'.handler = LogoutHandler
                /\ session' = SessionWith(None)
       /\ request'.handler = LogoutHandler => Anonymous(session')
       /\ Authenticated(session') => UsersById(session'["user"]) # {}]_vars

\* C7 witness: the session is Authenticated after a handler other than Login ran.
C7_Witness ==
    /\ Authenticated(session)
    /\ request.handler \in UserDataHandlers \cup {RegisterHandler}

\* C8: a Register request whose password differs from its confirmation leaves the
\* store unchanged and redirects to the registration form with the mismatch message.
C8_MismatchCreatesNothing ==
    [][(/\ request'.handler = RegisterHandler
        /\ request'.form.password # request'.form.confirm_password)
       => /\ UNCHANGED store
          /\ response' = Redirect("/register", MismatchMessage)]_vars

\* C8 witness: a registration with differing passwords was sent back to the form.
C8_Witness ==
    /\ request.handler = RegisterHandler
    /\ request.form.password # request.form.confirm_password
    /\ request.form.username \in Usernames
    /\ UsersByUsername(request.form.username) = {}
    /\ response.target = "/register"

\* `listing` holds exactly the gameplan rows of user_id, strictly ascending in order
IsGameplanListing(listing, user_id) ==
    /\ {listing[i] : i \in 1..Len(listing)} =
          {g \in gameplan_tasks : g.user_id = user_id}
    /\ Len(listing) = Cardinality({g \in gameplan_tasks : g.user_id = user_id})
    /\ \A i, j \in 1..Len(listing) : i < j => listing[i].order < listing[j].order

\* C9: in every reachable store state the gameplan listing of the dashboard holds,
\* for each user, exactly the GameplanTask rows with that user_id, strictly
\* ascending in their order field.
C9_GameplanListingOrdered ==
    /\ \A u \in users : IsGameplanListing(GameplanOfUser(u.user_id), u.user_id)
    /\ (request.handler = "show_user_tasks_and_gameplan" /\ response.status = "render")
       => IsGameplanListing(response.context.gameplan_tasks, session["user"])

\* C9 witness: the dashboard listed two gameplan entries of the session user, the
\* first of which has the greater task_id.
C9_Witness ==
    /\ request.handler = "show_user_tasks_and_gameplan"
    /\ response.status = "render"
    /\ Len(response.context.gameplan_tasks) >= 2
    /\ response.context.gameplan_tasks[1].task_id >
          response.context.gameplan_tasks[2].task_id

\* C10: every GameplanTask row's task_id is that of an existing Task row, and no
\* two GameplanTask rows share a task_id.
C10_GameplanReferencesTask ==
    /\ \A g \in gameplan_tasks : TasksById(g.task_id) # {}
    /\ \A g, h \in gameplan_tasks : g.task_id = h.task_id => g = h

\* C10 witness: a gameplan entry exists, and a request to add an entry for a task
\* id that names no task has been refused.
C10_Witness ==
    /\ gameplan_tasks # {}
    /\ request.handler = "add_task_to_gameplan"
    /\ TasksById(request.form.gameplan_task_name) = {}
    /\ response = Error("IntegrityError")

====
